---- MODULE Spec2Model ----
(***************************************************************************)
(* State-machine model of ImageEditorApp (src/main.py): one current image  *)
(* buffer, one displayed image, and one action per toolbar handler; a      *)
(* handler that asks for numbers has one more action per wait in a prompt. *)
(*                                                                         *)
(* An image is a sequence of rows, a row a sequence of pixels, a pixel a   *)
(* triple <<R, G, B>> of samples in 0..255: the numpy array of shape       *)
(* (height, width, 3).  Sequences are 1-based; pixel coordinates (x, y)    *)
(* of the drawing routines are 0-based, so pixel (x, y) is im[y+1][x+1].   *)
(* The absent buffer (Python None) is the empty sequence: a decoded image  *)
(* or a camera frame always has at least one row.                          *)
(***************************************************************************)
EXTENDS Integers, Sequences, FiniteSets

VARIABLES img, tk_img, camera, pending, op, channel, answers, dismissed, trace, raised

vars == <<img, tk_img, camera, pending, op, channel, answers, dismissed, trace, raised>>

(* ------------------------------ bounds -------------------------------- *)

MaxH == 3
MaxW == 3
MaxCoord == 1
MaxPending == 1

(* --------------------------- program constants ------------------------ *)

ThreshMin == 0
ThreshMax == 255
CoordMin == 0
Thickness == 2

None == <<>>

\* What a dismissed askinteger prompt returns (Python None); every value the
\* prompts accept is >= 0.
NoAnswer == -1

(* ------------------------------ inputs -------------------------------- *)

Background == <<200, 100, 30>>
Spot == <<30, 120, 255>>

Reverse3(p) == <<p[3], p[2], p[1]>>

\* An h x w array of colour bg with one pixel of colour fg at its centre (the
\* whole array when it is 1 x 1).
SpotImage(h, w, bg, fg) ==
    [r \in 1..h |-> [c \in 1..w |->
        IF r = (h + 1) \div 2 /\ c = (w + 1) \div 2 THEN fg ELSE bg]]

\* The shapes (height, width) of the arrays considered: the largest one, and
\* one of another height (so that a loaded image can differ in shape from
\* the one on the canvas).
Shapes == {<<MaxH, MaxW>>, <<MaxH - 1, MaxW>>}

\* The arrays a file can decode to: np.array(Image.open(path).convert("RGB")).
Images == {SpotImage(sh[1], sh[2], Background, Spot) : sh \in Shapes}

\* The frames the camera can deliver; OpenCV stores them in B, G, R order.
Frames ==
    {SpotImage(sh[1], sh[2], Reverse3(Background), Reverse3(Spot)) : sh \in Shapes}

Thresholds == {ThreshMin, 30, ThreshMax}

\* The values answered to a corner prompt: the least one it accepts and
\* MaxCoord.
Coords == {CoordMin, MaxCoord}

Channels == {"R", "G", "B"}

Height(im) == Len(im)
Width(im) == Len(im[1])

Min(a, b) == IF a < b THEN a ELSE b
Max(a, b) == IF a > b THEN a ELSE b

(* ------------------------- acquisition helpers ------------------------ *)

\* cv2.cvtColor(frame, cv2.COLOR_BGR2RGB): the channel order is reversed.
cvtColor_BGR2RGB(frame) ==
    [r \in 1..Height(frame) |-> [c \in 1..Width(frame) |-> Reverse3(frame[r][c])]]

(* --------------------------- show_channel ----------------------------- *)

\* Faulty variant: the selector indexes the channels in B, G, R order.
ChannelIndex_bgr(ch) == IF ch = "R" THEN 2 ELSE IF ch = "G" THEN 1 ELSE 0

\* idx = {"R": 0, "G": 1, "B": 2}[channel]
ChannelIndex(ch) == IF ch = "R" THEN 0 ELSE IF ch = "G" THEN 1 ELSE 2

\* ch = img[:, :, idx]; rgb = np.stack([ch] * 3, axis=-1)
ChannelImage(im, ch) ==
    [r \in 1..Height(im) |-> [c \in 1..Width(im) |->
        LET s == im[r][c][ChannelIndex(ch) + 1] IN <<s, s, s>>]]

(* ----------------------------- red_mask ------------------------------- *)

\* Faulty variant: the comparison is not strict.
MaskSample_ge(red, thresh) == ((IF red >= thresh THEN 1 ELSE 0) * 255) % 256

\* (img[:, :, 0] > thresh).astype(np.uint8) * 255, one sample
MaskSample(red, thresh) == ((IF red > thresh THEN 1 ELSE 0) * 255) % 256

\* rgb = np.stack([mask] * 3, axis=-1)
MaskImage(im, thresh) ==
    [r \in 1..Height(im) |-> [c \in 1..Width(im) |->
        LET m == MaskSample(im[r][c][1], thresh) IN <<m, m, m>>]]

(* ------------------------------ sharpen ------------------------------- *)

kernel == << <<0, -1, 0>>, <<-1, 5, -1>>, <<0, -1, 0>> >>

\* OpenCV's default border of filter2D (BORDER_REFLECT_101) for a 0-based
\* index p into an axis of length len: gfedcb|abcdefgh|gfedcba.
RECURSIVE borderInterpolate(_, _)
borderInterpolate(p, len) ==
    IF 0 <= p /\ p < len THEN p
    ELSE IF len = 1 THEN 0
    ELSE IF p < 0 THEN borderInterpolate(-p, len)
    ELSE borderInterpolate(2 * len - 2 - p, len)

\* Faulty variant: the sum is truncated to 8 bits instead of saturated.
saturate_cast_wrap(v) == v % 256

\* saturate_cast<uchar>: the 8-bit result of filter2D with ddepth = -1.
saturate_cast(v) == IF v < 0 THEN 0 ELSE IF v > 255 THEN 255 ELSE v

\* The weighted sum of the 3 x 3 neighbourhood of sample k of pixel (r, c),
\* anchored at the kernel's centre.
KernelSum(im, r, c, k) ==
    LET h == Height(im)
        w == Width(im)
        src(i, j) == im[borderInterpolate(r - 1 + i - 2, h) + 1]
                       [borderInterpolate(c - 1 + j - 2, w) + 1][k]
        row(i) == kernel[i][1] * src(i, 1) + kernel[i][2] * src(i, 2)
                  + kernel[i][3] * src(i, 3)
    IN row(1) + row(2) + row(3)

\* sharp = cv2.filter2D(img, -1, kernel)
filter2D(im) ==
    [r \in 1..Height(im) |-> [c \in 1..Width(im) |->
        << saturate_cast(KernelSum(im, r, c, 1)),
           saturate_cast(KernelSum(im, r, c, 2)),
           saturate_cast(KernelSum(im, r, c, 3)) >>]]

(* --------------------------- draw_rectangle --------------------------- *)

Blue == <<0, 0, 255>>

\* cv2.rectangle's corner list pt[0..3] from the two given corners.
RectangleVertices(pt1, pt2) ==
    << pt1, <<pt2[1], pt1[2]>>, pt2, <<pt1[1], pt2[2]>> >>

\* A filled circle as OpenCV's Circle() draws it (midpoint algorithm), as the
\* set of pixels (x, y); Circle's loop state is (dx, dy, err, plus, minus).
RECURSIVE CircleRows(_, _, _, _, _, _, _)
CircleRows(cx, cy, dx, dy, err, plus, minus) ==
    IF dx < dy THEN {}
    ELSE LET rows == {<<x, y>> : x \in (cx - dx)..(cx + dx), y \in {cy - dy, cy + dy}}
                     \cup {<<x, y>> : x \in (cx - dy)..(cx + dy), y \in {cy - dx, cy + dx}}
             err1 == err + plus
             over == err1 > 0
         IN rows \cup CircleRows(cx, cy,
                                 IF over THEN dx - 1 ELSE dx,
                                 dy + 1,
                                 IF over THEN err1 - minus ELSE err1,
                                 plus + 2,
                                 IF over THEN minus - 2 ELSE minus)

Circle(center, radius) ==
    CircleRows(center[1], center[2], radius, 0, 0, 1, 2 * radius - 1)

\* OpenCV's ThickLine() for an edge of a rectangle (horizontal or vertical)
\* and an even thickness: the polygon of half-width thickness / 2 around the
\* segment, and the round cap at the edge's end point p1.
ThickLine(p0, p1) ==
    LET half == Thickness \div 2
        horizontal == p0[2] = p1[2]
        dpx == IF horizontal THEN 0 ELSE half
        dpy == IF horizontal THEN half ELSE 0
        polygon == IF p0 = p1 THEN {}
                   ELSE {<<x, y>> :
                           x \in (Min(p0[1], p1[1]) - dpx)..(Max(p0[1], p1[1]) + dpx),
                           y \in (Min(p0[2], p1[2]) - dpy)..(Max(p0[2], p1[2]) + dpy)}
    IN polygon \cup Circle(p1, (Thickness + 1) \div 2)

\* Faulty variant: the polyline is left open (no edge from the last vertex to
\* the first).
PolyLine_open(v) ==
    UNION {ThickLine(v[i - 1], v[i]) : i \in 2..Len(v)}

\* OpenCV's PolyLine(v, closed): a thick line from each vertex to the next,
\* starting with the edge from the last vertex to the first.
PolyLine(v) ==
    UNION {ThickLine(v[IF i = 1 THEN Len(v) ELSE i - 1], v[i]) : i \in 1..Len(v)}

\* cv2.rectangle(im, pt1, pt2, color, thickness=2): the image with every
\* pixel of the outline that lies inside it set to color.
rectangle(im, pt1, pt2, color) ==
    LET outline == PolyLine(RectangleVertices(pt1, pt2))
    IN [r \in 1..Height(im) |-> [c \in 1..Width(im) |->
           IF <<c - 1, r - 1>> \in outline THEN color ELSE im[r][c]]]

\* Faulty variant: the outline is drawn on self.img itself, not on a copy.
DrawOnCopy_inplace(im, x1, y1, x2, y2) ==
    [buffer |-> rectangle(im, <<x1, y1>>, <<x2, y2>>, Blue),
     img_copy |-> rectangle(im, <<x1, y1>>, <<x2, y2>>, Blue)]

\* img_copy = self.img.copy(); cv2.rectangle(img_copy, ...): the contents of
\* the array self.img refers to after the call, and the array drawn on.
DrawOnCopy(im, x1, y1, x2, y2) ==
    [buffer |-> im,
     img_copy |-> rectangle(im, <<x1, y1>>, <<x2, y2>>, Blue)]

(* ------------------------------ camera -------------------------------- *)

\* Faulty variant: the handle is released at the end of the call, after the
\* buffer is set or the error is shown.
CaptureCalls_release_last(opened, ret) ==
    IF ~opened THEN <<"VideoCapture:failed", "showerror">>
    ELSE <<"VideoCapture:opened", "read">>
         \o (IF ~ret THEN <<"showerror">> ELSE <<"cvtColor", "update_display">>)
         \o <<"release">>

\* The calls capture_from_cam makes, in order, when the camera opens or not
\* (cap.isOpened()) and the frame is read or not (ret).
CaptureCalls(opened, ret) ==
    IF ~opened THEN <<"VideoCapture:failed", "showerror">>
    ELSE <<"VideoCapture:opened", "read", "release">>
         \o (IF ~ret THEN <<"showerror">> ELSE <<"cvtColor", "update_display">>)

\* Whether the capture device is held after a sequence of calls: a
\* VideoCapture that opens acquires it, release() gives it back.
RECURSIVE DeviceAfter(_, _)
DeviceAfter(state, calls) ==
    IF calls = <<>> THEN state
    ELSE DeviceAfter(IF Head(calls) = "VideoCapture:opened" THEN "held"
                     ELSE IF Head(calls) = "release" THEN "free"
                     ELSE state,
                     Tail(calls))

(* ------------------------------ state --------------------------------- *)

\* img        self.img, the current buffer (None at startup)
\* tk_img     the image on the canvas (self.tk_img), None at startup
\* camera     whether the capture device is held ("held") or not ("free")
\* pending    the handlers that wait in a numeric prompt, the innermost last:
\*            simpledialog.askinteger runs the event loop until its dialog is
\*            closed, so a toolbar command can run while the prompt waits.
\*            A frame holds the handler's name, the number of prompts it has
\*            shown and whether one of those answered so far was dismissed;
\*            the values of x1, y1, x2 are read on lines 212-215 only and
\*            are drawn there.
\* op, channel
\*            the handler that took the last step (returned, or showed a
\*            prompt) and its channel argument
\* answers    the values its numeric prompts returned, when all were answered
\* dismissed  whether one of its numeric prompts was dismissed without a value
\* trace      the dialogs, prompts and library calls it has made, in order
\* raised     whether it ended with an exception that no except clause of
\*            the handler caught (Tk reports it and the main loop goes on)
Init ==
    /\ img = None
    /\ tk_img = None
    /\ camera = "free"
    /\ pending = <<>>
    /\ op = "__init__"
    /\ channel = ""
    /\ answers = <<>>
    /\ dismissed = FALSE
    /\ trace = <<>>
    /\ raised = FALSE

Top == pending[Len(pending)]
Pop == SubSeq(pending, 1, Len(pending) - 1)

\* A handler that returns without touching the buffer or the canvas.
Returns(name, ch, calls) ==
    /\ op' = name
    /\ channel' = ch
    /\ answers' = <<>>
    /\ trace' = calls
    /\ raised' = FALSE
    /\ UNCHANGED <<img, tk_img, camera>>

\* _update_display(img_array): the canvas shows img_array.
update_display(img_array) == tk_img' = img_array

\* A handler's last statement self._update_display(img_array), with no except
\* clause around it: the canvas shows img_array, or ImageTk.PhotoImage
\* raises before self.tk_img is assigned and the exception leaves the
\* handler.
Displays(img_array) ==
    \/ /\ update_display(img_array)
       /\ raised' = FALSE
    \/ /\ UNCHANGED tk_img
       /\ raised' = TRUE

\* Faulty variant: the handler does not return after the warning and goes on
\* to its prompt.
NoImageWarning_prompting(name, ch) ==
    /\ img = None
    /\ dismissed' = FALSE
    /\ Returns(name, ch, <<"showwarning", "askinteger">>)
    /\ UNCHANGED pending

\* if self.img is None: messagebox.showwarning(...); return
NoImageWarning(name, ch) ==
    /\ img = None
    /\ dismissed' = FALSE
    /\ Returns(name, ch, <<"showwarning">>)
    /\ UNCHANGED pending

\* The record of a handler that waits in a numeric prompt: asked prompts
\* shown so far, none of them or one of them (none) dismissed.
Waits(name, asked, none) ==
    /\ op' = name
    /\ channel' = ""
    /\ answers' = <<>>
    /\ dismissed' = none
    /\ trace' = [i \in 1..asked |-> "askinteger"]
    /\ raised' = FALSE
    /\ UNCHANGED <<img, tk_img, camera>>

\* A handler that has passed its test of self.img and waits in its first
\* numeric prompt; nothing is read or written until the prompt returns.
Prompting(name) ==
    /\ img # None
    /\ Len(pending) < MaxPending
    /\ pending' = Append(pending, [name |-> name, asked |-> 1, none |-> FALSE])
    /\ Waits(name, 1, FALSE)

(* ----------------------------- handlers ------------------------------- *)

Paths == {"", "missing.png", "broken.jpg", "photo.png"}
Unreadable == {"missing.png", "broken.jpg"}

\* The except clause covers the whole try block: an exception of
\* Image.open / convert (line 130) leaves self.img alone; an exception of
\* _update_display (ImageTk.PhotoImage raising, line 133) comes after self.img
\* was assigned on line 131 and before self.tk_img is.
open_file ==
    \E path \in Paths :
        /\ dismissed' = FALSE
        /\ UNCHANGED pending
        /\ \/ /\ path = ""
              /\ Returns("open_file", "", <<"askopenfilename">>)
           \/ /\ path \in Unreadable
              /\ Returns("open_file", "", <<"askopenfilename", "Image.open", "showerror">>)
           \/ /\ path # "" /\ path \notin Unreadable
              /\ \E pil_img \in Images :
                   /\ img' = pil_img
                   /\ \/ /\ update_display(img')
                         /\ trace' = <<"askopenfilename", "Image.open", "update_display">>
                      \/ /\ UNCHANGED tk_img
                         /\ trace' = <<"askopenfilename", "Image.open",
                                       "update_display", "showerror">>
              /\ op' = "open_file"
              /\ channel' = ""
              /\ answers' = <<>>
              /\ raised' = FALSE
              /\ UNCHANGED camera

\* Faulty variant: the frame is stored in self.img before ret is tested.
capture_from_cam_early_assign ==
    \E opened \in BOOLEAN, ret \in BOOLEAN :
        LET calls == CaptureCalls(opened, ret) IN
        /\ op' = "capture_from_cam"
        /\ channel' = ""
        /\ answers' = <<>>
        /\ dismissed' = FALSE
        /\ trace' = calls
        /\ camera' = DeviceAfter(camera, calls)
        /\ UNCHANGED pending
        /\ \/ /\ ~opened
              /\ raised' = FALSE
              /\ UNCHANGED <<img, tk_img>>
           \/ /\ opened /\ ~ret
              /\ raised' = FALSE
              /\ \E frame \in Frames : img' = cvtColor_BGR2RGB(frame)
              /\ UNCHANGED tk_img
           \/ /\ opened /\ ret
              /\ \E frame \in Frames :
                   /\ img' = cvtColor_BGR2RGB(frame)
                   /\ Displays(img')

\* No except clause: when _update_display raises on line 153, self.img was
\* already assigned on line 151 and the canvas keeps its image.
capture_from_cam ==
    \E opened \in BOOLEAN, ret \in BOOLEAN :
        LET calls == CaptureCalls(opened, ret) IN
        /\ op' = "capture_from_cam"
        /\ channel' = ""
        /\ answers' = <<>>
        /\ dismissed' = FALSE
        /\ trace' = calls
        /\ camera' = DeviceAfter(camera, calls)
        /\ UNCHANGED pending
        /\ \/ /\ ~opened
              /\ raised' = FALSE
              /\ UNCHANGED <<img, tk_img>>
           \/ /\ opened /\ ~ret
              /\ raised' = FALSE
              /\ UNCHANGED <<img, tk_img>>
           \/ /\ opened /\ ret
              /\ \E frame \in Frames :
                   /\ img' = cvtColor_BGR2RGB(frame)
                   /\ Displays(img')

show_channel ==
    \E ch \in Channels :
        \/ NoImageWarning("show_channel", ch)
        \/ /\ img # None
           /\ Displays(ChannelImage(img, ch))
           /\ op' = "show_channel"
           /\ channel' = ch
           /\ answers' = <<>>
           /\ dismissed' = FALSE
           /\ trace' = <<"update_display">>
           /\ UNCHANGED <<img, camera, pending>>

\* Lines 176-179: the test of self.img, then the prompt is shown.
red_mask ==
    \/ NoImageWarning("red_mask", "")
    \/ Prompting("red_mask")

\* Lines 179-185: the prompt returns; the mask is computed from the buffer
\* as it is then.
red_mask_thresh ==
    /\ pending # <<>>
    /\ Top.name = "red_mask"
    /\ pending' = Pop
    /\ \E thresh \in Thresholds \cup {NoAnswer} :
         /\ dismissed' = (thresh = NoAnswer)
         /\ \/ /\ thresh = NoAnswer
               /\ Returns("red_mask", "", <<"askinteger">>)
            \/ /\ thresh # NoAnswer
               /\ Displays(MaskImage(img, thresh))
               /\ op' = "red_mask"
               /\ channel' = ""
               /\ answers' = <<thresh>>
               /\ trace' = <<"askinteger", "update_display">>
               /\ UNCHANGED <<img, camera>>

sharpen ==
    \/ NoImageWarning("sharpen", "")
    \/ /\ img # None
       /\ Displays(filter2D(img))
       /\ op' = "sharpen"
       /\ channel' = ""
       /\ answers' = <<>>
       /\ dismissed' = FALSE
       /\ trace' = <<"update_display">>
       /\ UNCHANGED <<img, camera, pending>>

\* The four prompts of draw_rectangle, in the order they are shown; all four
\* are shown whatever the earlier ones returned.
Prompts == <<"X1", "Y1", "X2", "Y2">>
FourPrompts == <<"askinteger", "askinteger", "askinteger", "askinteger">>

\* Faulty variant: only the last prompt's answer is tested for None.
AnyDismissed_last_only(none, y2) == y2 = NoAnswer

\* None in (x1, y1, x2, y2): none tells whether one of x1, y1, x2 is None.
AnyDismissed(none, y2) == none \/ y2 = NoAnswer

\* Lines 205-208: the test of self.img, then the X1 prompt is shown.
draw_rectangle ==
    \/ NoImageWarning("draw_rectangle", "")
    \/ Prompting("draw_rectangle")

\* Lines 208-211: one of the prompts X1, Y1, X2 returns, with a value or
\* dismissed, and the next one is shown.
draw_rectangle_coord ==
    /\ pending # <<>>
    /\ Top.name = "draw_rectangle"
    /\ Top.asked < Len(Prompts)
    /\ \E v \in Coords \cup {NoAnswer} :
         LET none == Top.none \/ v = NoAnswer IN
         /\ pending' = Append(Pop, [name |-> "draw_rectangle",
                                    asked |-> Top.asked + 1,
                                    none |-> none])
         /\ Waits("draw_rectangle", Top.asked + 1, none)

\* Lines 211-217: the Y2 prompt returns; the outline is drawn on a copy of
\* the buffer as it is then.
draw_rectangle_corners ==
    /\ pending # <<>>
    /\ Top.name = "draw_rectangle"
    /\ Top.asked = Len(Prompts)
    /\ pending' = Pop
    /\ \E y2 \in Coords \cup {NoAnswer} :
         /\ dismissed' = AnyDismissed(Top.none, y2)
         /\ \/ /\ AnyDismissed(Top.none, y2)
               /\ Returns("draw_rectangle", "", FourPrompts)
            \/ /\ ~AnyDismissed(Top.none, y2)
               /\ \E x1 \in Coords, y1 \in Coords, x2 \in Coords :
                    LET drawn == DrawOnCopy(img, x1, y1, x2, y2) IN
                    /\ img' = drawn.buffer
                    /\ Displays(drawn.img_copy)
                    /\ answers' = <<x1, y1, x2, y2>>
               /\ op' = "draw_rectangle"
               /\ channel' = ""
               /\ trace' = FourPrompts \o <<"update_display">>
               /\ UNCHANGED camera

\* Every toolbar command can be invoked from the main loop and from the event
\* loop of a waiting prompt; a waiting prompt returns when its dialog is
\* closed, the innermost first.
Next ==
    \/ open_file
    \/ capture_from_cam
    \/ show_channel
    \/ red_mask
    \/ red_mask_thresh
    \/ sharpen
    \/ draw_rectangle
    \/ draw_rectangle_coord
    \/ draw_rectangle_corners

Spec == Init /\ [][Next]_vars

(* ------------------------------ claims -------------------------------- *)

Transforms == {"show_channel", "red_mask", "sharpen", "draw_rectangle"}
Acquisitions == {"open_file", "capture_from_cam"}

\* A step in which a handler returns (to the main loop or to the event loop
\* of the prompt it was invoked from): no prompt is opened or answered and
\* left waiting.
Return == pending' = pending \/ Len(pending') < Len(pending)

\* A step in which a prompt is shown: the one a handler opens first, or the
\* next one after an answer.
PromptShown == ~Return

\* The handler whose record tr is ended by putting an image on the canvas.
Shown(tr) == tr # <<>> /\ tr[Len(tr)] = "update_display"

\* The handler that took the last step put its image on the canvas.
Completed == Shown(trace) /\ ~raised

Events(tr) == {tr[i] : i \in 1..Len(tr)}

SameShape(a, b) ==
    /\ Height(a) = Height(b)
    /\ \A r \in 1..Height(a) : Len(a[r]) = Len(b[r])

Pixels(im) == {<<r, c>> : r \in 1..Height(im), c \in 1..Width(im)}

\* C1: after a transform that completes, the current buffer is the
\* transform's output (the image on the canvas), so that the next transform
\* takes the previous transform's output as its input.
C1_BufferIsTransformOutput ==
    (op \in Transforms /\ Completed) => img = tk_img

\* C2: with no image loaded, a transform shows the warning, asks for no
\* parameter and changes neither the buffer, the canvas nor the camera.
C2_NoImageNoChange ==
    [][(img = None /\ op' \in Transforms)
         => /\ trace' = <<"showwarning">>
            /\ ~dismissed'
            /\ ~raised'
            /\ pending' = <<>>
            /\ img' = None
            /\ tk_img' = tk_img
            /\ camera' = camera]_vars

C2_Witness ==
    /\ op = "draw_rectangle"
    /\ trace = <<"showwarning">>
    /\ img = None
    /\ tk_img = None

\* An acquisition that failed: the file could not be opened or decoded, the
\* camera did not open, or no frame was read.  The error dialog then follows
\* the failing call directly; no image was handed to the canvas.
AcquisitionFailed(name, tr) ==
    /\ name \in Acquisitions
    /\ tr # <<>>
    /\ tr[Len(tr)] = "showerror"
    /\ "update_display" \notin Events(tr)

\* An acquisition whose source delivered an image: a decoded file or a frame
\* that was read.
Acquired(name, tr) ==
    /\ name \in Acquisitions
    /\ "update_display" \in Events(tr)

\* C3: a failed acquisition (file not opened or not decoded, camera not
\* opened, no frame read) is shown in the error dialog and leaves the current
\* buffer (absent or present) and the canvas as they were; every acquisition
\* that is neither cancelled in the file dialog nor delivers an image is such
\* a failure.
C3_FailedAcquisitionKeepsBuffer ==
    [][Return =>
         /\ AcquisitionFailed(op', trace')
              => /\ img' = img
                 /\ tk_img' = tk_img
                 /\ ~raised'
         /\ (op' \in Acquisitions /\ ~Acquired(op', trace')
               /\ trace' # <<"askopenfilename">>)
              => AcquisitionFailed(op', trace')]_vars

\* A capture failed on reading the frame while an image was loaded.
C3_Witness ==
    /\ op = "capture_from_cam"
    /\ "read" \in Events(trace)
    /\ trace[Len(trace)] = "showerror"
    /\ img \in Images

\* C4: a dismissed numeric prompt aborts the handler: no warning or error
\* dialog, and the handler changes neither the buffer nor the canvas, in the
\* step that returns or in a step that shows one of its prompts; a handler
\* that returns from its last prompt with an earlier one dismissed is
\* aborted.
C4_DismissedPromptAborts ==
    [][/\ (Return /\ dismissed')
            => /\ op' \in {"red_mask", "draw_rectangle"}
               /\ Events(trace') = {"askinteger"}
               /\ ~raised'
               /\ img' = img
               /\ tk_img' = tk_img
       /\ (Len(pending') < Len(pending) /\ Top.none)
            => dismissed'
       /\ PromptShown
            => /\ img' = img
               /\ tk_img' = tk_img]_vars

\* draw_rectangle has returned after a corner prompt was dismissed, while the
\* canvas showed a transform's output.
C4_Witness ==
    /\ pending = <<>>
    /\ dismissed
    /\ op = "draw_rectangle"
    /\ trace = FourPrompts
    /\ img \in Images
    /\ tk_img # img

\* C5: the mask has the height and width of the buffer it is computed from,
\* its samples are 0 or 255, and a pixel is 255 in all three channels exactly
\* when the buffer's red sample is strictly greater than the threshold.
IsRedMask(in, t, out) ==
    /\ SameShape(in, out)
    /\ \A p \in Pixels(in) :
         LET o == out[p[1]][p[2]] IN
         /\ Len(o) = 3
         /\ \A k \in 1..3 : o[k] \in {0, 255}
         /\ (o = <<255, 255, 255>>) <=> (in[p[1]][p[2]][1] > t)
         /\ (o = <<0, 0, 0>>) <=> ~(in[p[1]][p[2]][1] > t)

C5_RedMask ==
    [][(Return /\ op' = "red_mask" /\ Shown(trace') /\ ~raised')
         => /\ answers'[1] \in ThreshMin..ThreshMax
            /\ IsRedMask(img, answers'[1], tk_img')]_vars

\* A mask with a threshold equal to one pixel's red sample (masked out) and
\* below another's (kept).
C5_Witness ==
    /\ op = "red_mask"
    /\ Completed
    /\ answers = <<30>>
    /\ SameShape(img, tk_img)
    /\ \E p \in Pixels(img) : img[p[1]][p[2]][1] = 30 /\ tk_img[p[1]][p[2]] = <<0, 0, 0>>
    /\ \E p \in Pixels(img) : img[p[1]][p[2]][1] > 30 /\ tk_img[p[1]][p[2]] = <<255, 255, 255>>

\* C6: the channel image has the input's height and width and three channels,
\* all equal to the input's channel c (R index 0, G index 1, B index 2).
IsChannel(in, c, out) ==
    /\ SameShape(in, out)
    /\ \A p \in Pixels(in) :
         LET o == out[p[1]][p[2]]
             s == in[p[1]][p[2]][CASE c = "R" -> 1 [] c = "G" -> 2 [] c = "B" -> 3]
         IN o = <<s, s, s>>

C6_ShowChannel ==
    [][(Return /\ op' = "show_channel" /\ Shown(trace') /\ ~raised')
         => /\ channel' \in Channels
            /\ IsChannel(img, channel', tk_img')]_vars

C6_Witness ==
    /\ op = "show_channel"
    /\ channel = "B"
    /\ Completed
    /\ Height(img) = 2 /\ Width(img) = 3
    /\ SameShape(img, tk_img)
    /\ tk_img[1][1] = <<30, 30, 30>>
    /\ tk_img[1][2] = <<255, 255, 255>>

\* C7: the sharpened image has the input's shape, samples in 0..255, and each
\* interior sample is 5 * centre minus the four orthogonal neighbours, clamped
\* to 0 below and to 255 above.
Clamp(v) == IF v < 0 THEN 0 ELSE IF v > 255 THEN 255 ELSE v

Laplacian(in, r, c, k) ==
    5 * in[r][c][k] - in[r - 1][c][k] - in[r + 1][c][k]
                    - in[r][c - 1][k] - in[r][c + 1][k]

IsSharpened(in, out) ==
    /\ SameShape(in, out)
    /\ \A p \in Pixels(in) : \A k \in 1..3 : out[p[1]][p[2]][k] \in 0..255
    /\ \A r \in 2..(Height(in) - 1), c \in 2..(Width(in) - 1), k \in 1..3 :
         out[r][c][k] = Clamp(Laplacian(in, r, c, k))

C7_Sharpen ==
    [][(Return /\ op' = "sharpen" /\ Shown(trace') /\ ~raised')
         => IsSharpened(img, tk_img')]_vars

\* A sharpened image with an interior pixel whose red sum is negative, whose
\* green sum is in range and whose blue sum exceeds 255.
C7_Witness ==
    /\ op = "sharpen"
    /\ Completed
    /\ Height(img) = 3 /\ Width(img) = 3
    /\ SameShape(img, tk_img)
    /\ Laplacian(img, 2, 2, 1) < 0 /\ tk_img[2][2][1] = 0
    /\ Laplacian(img, 2, 2, 2) \in 1..254 /\ tk_img[2][2][2] = Laplacian(img, 2, 2, 2)
    /\ Laplacian(img, 2, 2, 3) > 255 /\ tk_img[2][2][3] = 255

\* C8: drawing with the two corners exchanged gives the same image.
C8_CornerOrder ==
    [][(Return /\ op' = "draw_rectangle" /\ Shown(trace') /\ ~raised')
         => tk_img' = DrawOnCopy(img, answers'[3], answers'[4],
                                 answers'[1], answers'[2]).img_copy]_vars

\* A rectangle given by its top-right and bottom-left corners that paints
\* some pixels of the image and leaves others.
C8_Witness ==
    /\ op = "draw_rectangle"
    /\ Completed
    /\ answers = <<1, 0, 0, 1>>
    /\ SameShape(img, tk_img)
    /\ \E p \in Pixels(img) : tk_img[p[1]][p[2]] = Blue
    /\ \E p \in Pixels(img) : tk_img[p[1]][p[2]] # Blue

\* The pixels within one pixel of the sides of the rectangle with corners
\* (x1, y1) and (x2, y2): where a stroke of thickness 2 may paint.
NearSides(x, y, x1, y1, x2, y2) ==
    LET xa == Min(x1, x2)
        xb == Max(x1, x2)
        ya == Min(y1, y2)
        yb == Max(y1, y2)
    IN /\ x \in (xa - 1)..(xb + 1)
       /\ y \in (ya - 1)..(yb + 1)
       /\ ~(x \in (xa + 2)..(xb - 2) /\ y \in (ya + 2)..(yb - 2))

\* C9: draw_rectangle leaves the samples of the buffer it reads as they were;
\* the image on the canvas has the buffer's shape and differs from it only at
\* outline pixels, which are pure blue.
C9_DrawsOnCopy ==
    [][(Return /\ op' = "draw_rectangle" /\ Shown(trace') /\ ~raised')
         => /\ img' = img
            /\ SameShape(img, tk_img')
            /\ \A p \in Pixels(img) :
                 \/ tk_img'[p[1]][p[2]] = img[p[1]][p[2]]
                 \/ /\ tk_img'[p[1]][p[2]] = <<0, 0, 255>>
                    /\ NearSides(p[2] - 1, p[1] - 1, answers'[1], answers'[2],
                                 answers'[3], answers'[4])]_vars

C9_Witness ==
    /\ op = "draw_rectangle"
    /\ Completed
    /\ img \in Images
    /\ SameShape(img, tk_img)
    /\ \E p \in Pixels(img) : tk_img[p[1]][p[2]] = Blue /\ img[p[1]][p[2]] # Blue
    /\ \E p \in Pixels(img) : tk_img[p[1]][p[2]] = img[p[1]][p[2]]

Index(tr, e) == CHOOSE i \in 1..Len(tr) : tr[i] = e
Count(tr, e) == Cardinality({i \in 1..Len(tr) : tr[i] = e})

\* C10 as stated: on every path through capture_from_cam, the path on which
\* the camera does not open included, the handle is released before the
\* call returns.
C10_ReleasedOnEveryPath ==
    op = "capture_from_cam" => "release" \in Events(trace)

\* C10, amended: the capture device is never held when a handler has
\* returned.  When the camera does not open, capture_from_cam shows the error
\* without reading a frame or calling release; when it opens, exactly one
\* frame is read, the handle is then released exactly once, and only after
\* that is the buffer set or the error shown.
C10_CameraScopedToCall ==
    /\ camera = "free"
    /\ op = "capture_from_cam" =>
         IF trace[1] = "VideoCapture:failed"
         THEN trace = <<"VideoCapture:failed", "showerror">>
         ELSE /\ trace[1] = "VideoCapture:opened"
              /\ Count(trace, "VideoCapture:opened") = 1
              /\ Count(trace, "read") = 1
              /\ Count(trace, "release") = 1
              /\ Index(trace, "read") < Index(trace, "release")
              /\ \A i \in 1..Len(trace) :
                   trace[i] \in {"showerror", "cvtColor", "update_display"}
                     => Index(trace, "release") < i

\* A capture whose camera opened and whose frame could not be read.
C10_Witness ==
    /\ op = "capture_from_cam"
    /\ trace = <<"VideoCapture:opened", "read", "release", "showerror">>
    /\ camera = "free"

====
